---- MODULE Spec2Model ----
(***************************************************************************)
(* CompanionMind AI engine (pc-backend/server.py, pc-backend/sentiment.py) *)
(* as a state machine.                                                     *)
(*                                                                         *)
(* Program state: the module-level containers of server.py                 *)
(* (conversations, user_profile, sensor_data).  Each websocket connection  *)
(* is a coroutine whose position is pc[c]; the code between two awaits     *)
(* runs without interleaving, so one action is one such stretch.           *)
(*                                                                         *)
(* Python values that may be None are sets with at most one element:       *)
(* None is {} and a value v is {v}.  A JSON object is a function from the  *)
(* keys it holds to their values.  Wall-clock timestamps                   *)
(* (datetime.now()) are not modelled.                                      *)
(***************************************************************************)
EXTENDS Integers, Sequences, FiniteSets, TLC

VARIABLES
    conversations,   \* server.py:58, list of {role, content}
    user_profile,    \* server.py:60, loneliness_mentions and sentiment_scores
    sensor_data,     \* server.py:67, motion / location / light
    pc,              \* per connection: position of websocket_client
    outbox,          \* per connection: the message handed to send_json
    stats,           \* the last /stats response, None before the first
    lastEvt,         \* history variable: the operation of the last step and its input
    appended,        \* history variable: every entry ever appended to each bounded list
    received         \* history variable: conversation messages read, and those not skipped

vars == <<conversations, user_profile, sensor_data, pc, outbox, stats,
          lastEvt, appended, received>>

-----------------------------------------------------------------------------
(* Python values *)

None == {}

Some(v) == {v}

TheValue(o) == CHOOSE v \in o : TRUE

\* dict.get(k): None when the key is missing
Get(data, k) == IF k \in DOMAIN data THEN Some(data[k]) ELSE None

\* dict.get(k, d)
GetD(data, k, d) == IF k \in DOMAIN data THEN data[k] ELSE d

\* truth value of an optional boolean
Truthy(o) == o = Some(TRUE)

Min(a, b) == IF a < b THEN a ELSE b

\* Python slice seq[start:stop] with start, stop possibly negative (0-based, stop exclusive)
SliceIndex(n, i) == IF i < 0 THEN (IF n + i < 0 THEN 0 ELSE n + i) ELSE Min(i, n)

PySlice(seq, start, stop) ==
    LET n  == Len(seq)
        lo == SliceIndex(n, start)
        hi == SliceIndex(n, stop)
    IN  IF lo >= hi THEN <<>> ELSE SubSeq(seq, lo + 1, hi)

\* seq[start:]
PyTail(seq, start) == PySlice(seq, start, Len(seq))

\* list.pop() would drop the newest entry
pop_last(list) == SubSeq(list, 1, Len(list) - 1)

\* list.pop(0): drop the oldest entry
pop0(list) == Tail(list)

-----------------------------------------------------------------------------
(* Sensor handlers, server.py:256-343 *)

activity_snapshot(data) ==
    [timestamp      |-> Get(data, "timestamp"),
     is_active      |-> Get(data, "isActive"),
     movement_count |-> Get(data, "movementCount"),
     steps          |-> GetD(data, "steps", 0)]

\* a bug that would start the fall alerts afresh on every motion update
handle_motion_update_wiping(sd, data) ==
    [sd EXCEPT
        !.motion.current_activity =
            IF Truthy(Get(data, "isActive")) THEN "active" ELSE "sedentary",
        !.motion.steps_today = GetD(data, "steps", 0),
        !.motion.last_movement = Get(data, "lastMovement"),
        !.motion.activity_history = Append(@, activity_snapshot(data)),
        !.motion.fall_alerts = <<>>]

\* handle_motion_update(data), server.py:256-276
handle_motion_update(sd, data) ==
    LET hist == Append(sd.motion.activity_history, activity_snapshot(data))
    IN  [sd EXCEPT
            !.motion.current_activity =
                IF Truthy(Get(data, "isActive")) THEN "active" ELSE "sedentary",
            !.motion.steps_today = GetD(data, "steps", 0),
            !.motion.last_movement = Get(data, "lastMovement"),
            !.motion.activity_history =
                IF Len(hist) > 100 THEN pop0(hist) ELSE hist]

\* data.get("timestamp") / 1000 raises TypeError when the timestamp is None
fall_alert_raises(data) == Get(data, "timestamp") = None

\* datetime.fromtimestamp(ms / 1000).isoformat(): seconds and the fraction left
fromtimestamp(ms) == <<ms \div 1000, ms % 1000>>

fall_event(data) ==
    [timestamp |-> Get(data, "timestamp"),
     magnitude |-> Get(data, "magnitude"),
     time      |-> fromtimestamp(data["timestamp"])]

\* a bug that would start the list afresh once it is full
handle_fall_alert_flushing(sd, data) ==
    LET alerts == Append(sd.motion.fall_alerts, fall_event(data))
    IN  [sd EXCEPT
            !.motion.fall_alerts = IF Len(alerts) > 50 THEN <<>> ELSE alerts]

\* handle_fall_alert(data), server.py:278-296
handle_fall_alert(sd, data) ==
    LET alerts == Append(sd.motion.fall_alerts, fall_event(data))
    IN  [sd EXCEPT
            !.motion.fall_alerts =
                IF Len(alerts) > 50 THEN pop0(alerts) ELSE alerts]

location_snapshot(data) ==
    [timestamp          |-> Get(data, "timestamp"),
     is_home            |-> Get(data, "isHome"),
     distance_from_home |-> GetD(data, "distance", 0)]

handle_location_update(sd, data) ==
    LET hist == Append(sd.location.history, location_snapshot(data))
    IN  [sd EXCEPT
            !.location.is_home = GetD(data, "isHome", TRUE),
            !.location.left_home_today = GetD(data, "leftHomeToday", FALSE),
            !.location.last_update = Get(data, "timestamp"),
            !.location.history =
                IF Len(hist) > 100 THEN pop0(hist) ELSE hist]

light_snapshot(data) ==
    [timestamp |-> Get(data, "timestamp"),
     level     |-> Get(data, "currentLevel"),
     is_dark   |-> Get(data, "isDark")]

handle_light_update(sd, data) ==
    LET hist == Append(sd.light.history, light_snapshot(data))
    IN  [sd EXCEPT
            !.light.current_level = Get(data, "currentLevel"),
            !.light.is_dark = GetD(data, "isDark", FALSE),
            !.light.dark_duration_minutes = GetD(data, "darkDuration", 0),
            !.light.last_update = Get(data, "timestamp"),
            !.light.history =
                IF Len(hist) > 100 THEN pop0(hist) ELSE hist]

-----------------------------------------------------------------------------
(* Python strings.  TLC's Len, SubSeq and \o act on strings. *)

Char(s, i) == SubSeq(s, i, i)

\* sub in s
Contains(s, sub) ==
    \E i \in 1..(Len(s) - Len(sub) + 1) : SubSeq(s, i, i + Len(sub) - 1) = sub

\* s.find(sub) + 1: the first place sub occurs at, 0 when it does not
Find(s, sub) ==
    IF Contains(s, sub)
    THEN CHOOSE i \in 1..(Len(s) - Len(sub) + 1) :
            /\ SubSeq(s, i, i + Len(sub) - 1) = sub
            /\ \A j \in 1..(i - 1) : SubSeq(s, j, j + Len(sub) - 1) # sub
    ELSE 0

UpperLetters == "ABCDEFGHIJKLMNOPQRSTUVWXYZ"

LowerLetters == "abcdefghijklmnopqrstuvwxyz"

LowerChar(c) ==
    IF \E i \in 1..26 : Char(UpperLetters, i) = c
    THEN Char(LowerLetters, CHOOSE i \in 1..26 : Char(UpperLetters, i) = c)
    ELSE c

RECURSIVE lower(_)
\* str.lower()
lower(s) == IF s = "" THEN "" ELSE LowerChar(Char(s, 1)) \o lower(SubSeq(s, 2, Len(s)))

Whitespace == {" ", "\n", "\t", "\r"}

RECURSIVE lstrip(_)
lstrip(s) ==
    IF s # "" /\ Char(s, 1) \in Whitespace THEN lstrip(SubSeq(s, 2, Len(s))) ELSE s

RECURSIVE rstrip(_)
rstrip(s) ==
    IF s # "" /\ Char(s, Len(s)) \in Whitespace THEN rstrip(SubSeq(s, 1, Len(s) - 1)) ELSE s

\* str.strip()
strip(s) == lstrip(rstrip(s))

\* s.split(sep)[0]
SplitHead(s, sep) == IF Contains(s, sep) THEN SubSeq(s, 1, Find(s, sep) - 1) ELSE s

RECURSIVE split(_, _)
\* s.split(sep), sep not empty
split(s, sep) ==
    IF Contains(s, sep)
    THEN <<SubSeq(s, 1, Find(s, sep) - 1)>>
            \o split(SubSeq(s, Find(s, sep) + Len(sep), Len(s)), sep)
    ELSE <<s>>

RECURSIVE join(_, _)
\* sep.join(parts)
join(sep, parts) ==
    IF parts = <<>> THEN ""
    ELSE IF Len(parts) = 1 THEN parts[1]
    ELSE parts[1] \o sep \o join(sep, Tail(parts))

RECURSIVE replace(_, _, _)
\* s.replace(old, new), old one character
replace(s, old, new) ==
    IF s = "" THEN ""
    ELSE (IF Char(s, 1) = old THEN new ELSE Char(s, 1)) \o replace(SubSeq(s, 2, Len(s)), old, new)

RECURSIVE SumSeq(_)
SumSeq(xs) == IF xs = <<>> THEN 0 ELSE Head(xs) + SumSeq(Tail(xs))

-----------------------------------------------------------------------------
(* sentiment.py: EnhancedSentimentAnalyzer *)

\* emotion_keywords, in declaration order (a dict keeps insertion order), sentiment.py:7-27
emotion_keywords == <<
    [emotion |-> "loneliness", keywords |-> <<
        "lonely", "alone", "isolated", "forgotten", "nobody",
        "no one", "by myself", "on my own", "miss", "missing",
        "abandoned", "left behind", "empty", "solitary">>],
    [emotion |-> "sadness", keywords |-> <<
        "sad", "depressed", "down", "blue", "unhappy",
        "miserable", "hopeless", "despair", "crying", "tears",
        "heartbroken", "grief", "sorrow">>],
    [emotion |-> "anxiety", keywords |-> <<
        "worried", "anxious", "scared", "afraid", "fear",
        "nervous", "stress", "panic", "overwhelmed", "restless">>],
    [emotion |-> "social_disconnection", keywords |-> <<
        "nobody calls", "nobody visits", "don't talk to anyone",
        "haven't heard from", "they forgot", "too busy for me",
        "don't care", "ignored", "excluded">>] >>

Emotions == {emotion_keywords[i].emotion : i \in DOMAIN emotion_keywords}

EmotionIndex(e) == CHOOSE i \in DOMAIN emotion_keywords : emotion_keywords[i].emotion = e

\* matches = [kw for kw in keywords if kw in text_lower], sentiment.py:41
keyword_matches(keywords, text_lower) ==
    SelectSeq(keywords, LAMBDA kw : Contains(text_lower, kw))

\* a bug that would let later categories win ties
max_key_last(emotion_scores) ==
    CHOOSE e \in DOMAIN emotion_scores :
        /\ \A f \in DOMAIN emotion_scores : emotion_scores[f] <= emotion_scores[e]
        /\ \A f \in DOMAIN emotion_scores :
              emotion_scores[f] = emotion_scores[e] => EmotionIndex(e) >= EmotionIndex(f)

\* max(emotion_scores, key=emotion_scores.get): the first key, in insertion order,
\* whose value no other key exceeds
max_key(emotion_scores) ==
    CHOOSE e \in DOMAIN emotion_scores :
        /\ \A f \in DOMAIN emotion_scores : emotion_scores[f] <= emotion_scores[e]
        /\ \A f \in DOMAIN emotion_scores :
              emotion_scores[f] = emotion_scores[e] => EmotionIndex(e) <= EmotionIndex(f)

\* a bug that would call a score of exactly 60 moderate
severity_strict(negativity_score) ==
    IF negativity_score > 60 THEN "severe"
    ELSE IF negativity_score >= 30 THEN "moderate"
    ELSE IF negativity_score > 0 THEN "mild"
    ELSE "none"

\* severity, sentiment.py:61-69
severity_of(negativity_score) ==
    IF negativity_score >= 60 THEN "severe"
    ELSE IF negativity_score >= 30 THEN "moderate"
    ELSE IF negativity_score > 0 THEN "mild"
    ELSE "none"

\* a bug that would leave the confidence uncapped
confidence_uncapped(matches) == Len(matches) * 25

\* confidence = min(len(matches) * 25, 100), sentiment.py:45
confidence_of(matches) == Min(Len(matches) * 25, 100)

\* a bug that would weigh a match 25 instead of 15
negativity_steep(total_matches) == Min(total_matches * 25, 100)

\* negativity_score = min(total_matches * 15, 100), sentiment.py:59
negativity_of(total_matches) == Min(total_matches * 15, 100)

\* analyze(text), sentiment.py:29-80 (the record's wall-clock timestamp is left out)
analyze(text) ==
    LET text_lower == lower(text)
        matched(i) == keyword_matches(emotion_keywords[i].keywords, text_lower)
        active == {i \in DOMAIN emotion_keywords : matched(i) # <<>>}
        emotion_scores ==
            [e \in {emotion_keywords[i].emotion : i \in active} |->
                confidence_of(matched(EmotionIndex(e)))]
        detected_keywords ==
            [e \in {emotion_keywords[i].emotion : i \in active} |-> matched(EmotionIndex(e))]
        primary_emotion ==
            IF DOMAIN emotion_scores # {} THEN Some(max_key(emotion_scores)) ELSE None
        max_confidence ==
            IF DOMAIN emotion_scores # {} THEN emotion_scores[max_key(emotion_scores)] ELSE 0
        total_matches ==
            SumSeq([i \in DOMAIN emotion_keywords |-> Len(matched(i))])
        negativity_score == negativity_of(total_matches)
    IN  [primary_emotion   |-> primary_emotion,
         confidence        |-> max_confidence,
         severity          |-> severity_of(negativity_score),
         negativity_score  |-> negativity_score,
         emotion_breakdown |-> emotion_scores,
         detected_keywords |-> detected_keywords,
         needs_attention   |-> negativity_score >= 30]


\* sum(s.get("negativity_score", 0) for s in records)
negativity_sum(records) == SumSeq([i \in DOMAIN records |-> records[i].negativity_score])

\* sum(...) / n as the exact quotient num/den; the doubles Python computes compare
\* the same way for every score analyze can produce (sums of 15*k and 100)
Quotient(num, den) == [num |-> num, den |-> den]

\* a > b + k for quotients a, b with positive denominators
GreaterBy(a, b, k) == a.num * b.den > b.num * a.den + k * a.den * b.den

\* a < b - k
LessBy(a, b, k) == a.num * b.den < b.num * a.den - k * a.den * b.den

\* a >= k
AtLeast(a, k) == a.num >= k * a.den

\* round(a, 2), in hundredths
round2(a) == (200 * a.num + a.den) \div (2 * a.den)

\* a bug that would average everything before the last three records
older_window_all(sentiment_history) == PySlice(sentiment_history, 0, -3)

\* a bug that would take the older window one record further back
older_window_shifted(sentiment_history) == PySlice(sentiment_history, -7, -4)

\* older = sentiment_history[-6:-3], sentiment.py:91
older_window(sentiment_history) == PySlice(sentiment_history, -6, -3)

\* a bug that would divide the older sum by 3 however many records it has
older_avg_fixed3(older) == Quotient(negativity_sum(older), 3)

\* older_avg = sum(...) / len(older), sentiment.py:94
older_avg_of(older) == Quotient(negativity_sum(older), Len(older))

\* compute_trend_and_risk(sentiment_history), sentiment.py:82-116
compute_trend_and_risk(sentiment_history) ==
    IF Len(sentiment_history) < 4
    THEN [trend |-> "insufficient_data", risk_level |-> "low"]
    ELSE
      LET recent == PyTail(sentiment_history, -3)
          older  == older_window(sentiment_history)
      IN  IF Len(recent) = 0 \/ Len(older) = 0
          THEN [raised |-> "ZeroDivisionError"]
          ELSE
            LET recent_avg == Quotient(negativity_sum(recent), Len(recent))
                older_avg  == older_avg_of(older)
            IN  [trend |->
                    IF GreaterBy(recent_avg, older_avg, 10) THEN "worsening"
                    ELSE IF LessBy(recent_avg, older_avg, 10) THEN "improving"
                    ELSE "stable",
                 risk_level |->
                    IF AtLeast(recent_avg, 60) THEN "high"
                    ELSE IF AtLeast(recent_avg, 30) THEN "medium"
                    ELSE "low",
                 recent_avg_negativity |-> round2(recent_avg)]

\* a bug that would count over the whole history
pattern_window_all(sentiment_history) == sentiment_history

\* recent = sentiment_history[-10:], sentiment.py:130
pattern_window(sentiment_history) == PyTail(sentiment_history, -10)

\* a bug that would compare the two ends of a window of any length
escalating_unguarded(recent) ==
    GreaterBy(Quotient(negativity_sum(PyTail(recent, -3)), 3),
              Quotient(negativity_sum(PySlice(recent, 0, 3)), 3), 20)

\* escalating, sentiment.py:144-150
escalating_of(recent) ==
    IF Len(recent) >= 5
    THEN GreaterBy(Quotient(negativity_sum(PyTail(recent, -3)), 3),
                   Quotient(negativity_sum(PySlice(recent, 0, 3)), 3), 20)
    ELSE FALSE

\* analyze_pattern(sentiment_history), sentiment.py:119-176
analyze_pattern(sentiment_history) ==
    IF Len(sentiment_history) < 3
    THEN [pattern_detected |-> FALSE,
          reason |-> "Insufficient data (need 3+ conversations)"]
    ELSE
      LET recent == pattern_window(sentiment_history)
          high_negativity_count ==
              Len(SelectSeq(recent, LAMBDA r : r.negativity_score >= 30))
          loneliness_count ==
              Len(SelectSeq(recent, LAMBDA r : r.primary_emotion = Some("loneliness")))
          escalating == escalating_of(recent)
          alert_triggered ==
              high_negativity_count >= 3 \/ loneliness_count >= 2 \/ escalating
          alert_reason ==
              (IF high_negativity_count >= 3
               THEN <<ToString(high_negativity_count) \o " negative conversations detected">>
               ELSE <<>>)
              \o (IF loneliness_count >= 2
                  THEN <<"Loneliness mentioned " \o ToString(loneliness_count) \o " times">>
                  ELSE <<>>)
              \o (IF escalating
                  THEN <<"Emotional state appears to be worsening">>
                  ELSE <<>>)
      IN  [pattern_detected      |-> alert_triggered,
           severity              |-> IF high_negativity_count >= 5 THEN "high" ELSE "moderate",
           reasons               |-> alert_reason,
           high_negativity_count |-> high_negativity_count,
           loneliness_mentions   |-> loneliness_count,
           escalating            |-> escalating,
           recommendation        |->
               IF alert_triggered
               THEN "Consider reaching out for a personal check-in"
               ELSE "Continue monitoring"]

-----------------------------------------------------------------------------
(* server.py: AIEngine *)

\* a bug that would leave the short-history case to the analyzer
get_trend_and_risk_unguarded(up) == compute_trend_and_risk(up.sentiment_scores)

\* get_trend_and_risk(), server.py:98-108
get_trend_and_risk(up) ==
    IF Len(up.sentiment_scores) < 4
    THEN [trend |-> "insufficient_data", risk_level |-> "low", recent_avg_negativity |-> 0]
    ELSE compute_trend_and_risk(up.sentiment_scores)

\* _get_risk_recommendation(risk_level, factors), server.py:158-166
get_risk_recommendation(risk_level, factors) ==
    IF risk_level = "critical" THEN "IMMEDIATE ACTION REQUIRED: Contact user immediately."
    ELSE IF risk_level = "high" THEN "HIGH PRIORITY: Reach out to user soon."
    ELSE IF risk_level = "moderate" THEN "MONITOR CLOSELY: Continue observation."
    ELSE "ROUTINE MONITORING: User appears stable."

\* a bug that would scale the fall contribution by the number of alerts
fall_risk_scaled(fall_alerts) == 3 * Len(fall_alerts)

\* the fall-alert term of risk_score, server.py:127-130
fall_risk(fall_alerts) == IF Len(fall_alerts) > 0 THEN 3 ELSE 0

\* a bug that would score a medium emotional risk like a high one
emotional_score_flat(risk_level) ==
    IF risk_level = "high" \/ risk_level = "medium" THEN 3 ELSE 0

\* emotional_score, server.py:132-137
emotional_score(risk_level) ==
    IF risk_level = "high" THEN 3
    ELSE IF risk_level = "medium" THEN 2
    ELSE 0

\* get_combined_risk_assessment(), server.py:110-156
get_combined_risk_assessment(up, sd) ==
    LET emotional_risk == get_trend_and_risk(up)
        low_steps == sd.motion.steps_today < 500
        at_home   == ~sd.location.left_home_today
        fallen    == Len(sd.motion.fall_alerts) > 0
        risk_factors ==
            (IF low_steps THEN <<"Very low physical activity (< 500 steps)">> ELSE <<>>)
            \o (IF at_home THEN <<"Has not left home today">> ELSE <<>>)
            \o (IF fallen
                THEN <<ToString(Len(sd.motion.fall_alerts)) \o " fall alert(s) detected">>
                ELSE <<>>)
        risk_score ==
            (IF low_steps THEN 2 ELSE 0) + (IF at_home THEN 1 ELSE 0)
                + fall_risk(sd.motion.fall_alerts)
        total_risk_score == risk_score + emotional_score(emotional_risk.risk_level)
        overall_risk ==
            IF total_risk_score >= 6 THEN "critical"
            ELSE IF total_risk_score >= 4 THEN "high"
            ELSE IF total_risk_score >= 2 THEN "moderate"
            ELSE "low"
    IN  [overall_risk_level    |-> overall_risk,
         risk_score            |-> total_risk_score,
         emotional_component   |-> emotional_risk,
         physical_risk_factors |-> risk_factors,
         recommendation        |-> get_risk_recommendation(overall_risk, risk_factors)]


\* stop_markers, server.py:200-204
stop_markers == <<
    "\n---", "\n###", "Instruction", "Note:", "Consider",
    "Let us", "System:", "scenario", "situation where",
    "Example:", "User:", "Assistant:", "Human:", "AI:">>

RECURSIVE cut_at_markers(_, _)
\* for marker in stop_markers: ..., server.py:206-208
cut_at_markers(response, markers) ==
    IF markers = <<>> THEN response
    ELSE cut_at_markers(
            IF Contains(response, Head(markers))
            THEN strip(SplitHead(response, Head(markers)))
            ELSE response,
            Tail(markers))

instruction_words == {"instruction", "note:", "consider", "let us", "scenario"}

RECURSIVE clean_lines(_)
\* for line in lines: ..., server.py:214-222
clean_lines(lines) ==
    IF lines = <<>> THEN <<>>
    ELSE LET line == strip(Head(lines))
         IN  IF line = "" THEN clean_lines(Tail(lines))
             ELSE IF \E word \in instruction_words : Contains(lower(line), word) THEN <<>>
             ELSE <<line>> \o clean_lines(Tail(lines))

RECURSIVE stripped_nonempty(_)
\* [s.strip() for s in sentences if s.strip()]
stripped_nonempty(parts) ==
    IF parts = <<>> THEN <<>>
    ELSE (IF strip(Head(parts)) = "" THEN <<>> ELSE <<strip(Head(parts))>>)
            \o stripped_nonempty(Tail(parts))

endswith_stop(s) == s # "" /\ Char(s, Len(s)) \in {".", "!", "?"}

\* the cleaning of the model's output, server.py:198-237
clean_response(stdout_stripped) ==
    LET cut       == cut_at_markers(stdout_stripped, stop_markers)
        response  == strip(join(" ", clean_lines(split(cut, "\n"))))
        sentences == stripped_nonempty(
                        split(replace(replace(response, "!", "."), "?", "."), "."))
        limited   ==
            IF Len(sentences) > 2 THEN join(". ", SubSeq(sentences, 1, 2)) \o "."
            ELSE IF sentences # <<>>
                 THEN (IF endswith_stop(join(". ", sentences))
                       THEN join(". ", sentences)
                       ELSE join(". ", sentences) \o ".")
                 ELSE response
    IN  IF limited # "" THEN limited ELSE "I'm here listening."

\* the fixed replies of generate_response, server.py:196, 237, 241
fallback_replies == {"I'm here with you. Tell me more.", "I'm here listening.", "I'm here with you."}

\* a bug that would let the exception of subprocess.run out of generate_response
generate_response_uncaught(run) ==
    IF run.raised # None THEN [raised |-> run.raised]
    ELSE [raised |-> None,
          reply |-> IF strip(run.stdout) = "" THEN "I'm here with you. Tell me more."
                    ELSE clean_response(strip(run.stdout))]

\* generate_response(user_message, history), server.py:168-241.  run is what
\* subprocess.run did: the exception it raised, or the exit status and stdout of
\* the process.  The prompt only feeds the process, whose output is any run.
generate_response(run) ==
    IF run.raised # None
    THEN [raised |-> None, reply |-> "I'm here with you."]
    ELSE [raised |-> None,
          reply |-> IF strip(run.stdout) = "" THEN "I'm here with you. Tell me more."
                    ELSE clean_response(strip(run.stdout))]


-----------------------------------------------------------------------------
(* The utterances and the process outcomes the specifications draw from *)

\* utterances with no, two and four matched phrases: negativity 0, 30 and 60
TextCalm == "hello there"

TextModerate == "lonely and sad"

TextSevere == "lonely alone sad worried"

\* seven matched phrases: 7 * 15 is clamped to 100
TextMax == "lonely alone sad worried isolated forgotten nobody"

TextLonely == "I feel so lonely and nobody calls me anymore"

\* one loneliness phrase: negativity 15, below the high-negativity line
TextAlone == "alone"

\* four sadness and three anxiety phrases, none of loneliness: negativity 100
TextGrim == "sad depressed unhappy miserable worried anxious scared"

Utterances ==
    {TextCalm, TextModerate, TextSevere, TextMax, TextLonely, TextAlone, TextGrim}

\* subprocess.run succeeded with proper text
RunOk ==
    [raised |-> None, returncode |-> 0,
     stdout |-> "I'm so sorry to hear that. Tell me more! I am here.\n"]

\* what subprocess.run can do: raise (timeout after 30 s, ollama not installed),
\* or return an exit status and the captured stdout
Runs ==
    {RunOk,
     [raised |-> Some("TimeoutExpired"), returncode |-> 0, stdout |-> ""],
     [raised |-> Some("FileNotFoundError"), returncode |-> 0, stdout |-> ""],
     [raised |-> None, returncode |-> 0, stdout |-> "\n"],
     [raised |-> None, returncode |-> 0, stdout |-> "Note: respond warmly"],
     [raised |-> None, returncode |-> 1, stdout |-> ""],
     [raised |-> None, returncode |-> 1, stdout |-> "I'm so sor"]}

\* analyze and generate_response on the inputs above, evaluated once
AnalyzeTable == [text \in Utterances |-> analyze(text)]

GenerateTable == [run \in Runs |-> generate_response(run)]

\* AIEngine.analyze_sentiment(text), server.py:243-244
analyze_sentiment(text) ==
    IF text \in Utterances THEN AnalyzeTable[text] ELSE analyze(text)

\* ai_response = ai_engine.generate_response(...), server.py:497
ai_response(run) ==
    IF run \in Runs THEN GenerateTable[run] ELSE generate_response(run)

-----------------------------------------------------------------------------
(* server.py: GET /stats *)

\* round(num / den * scale) to the nearest integer, ties to even, as round() does
\* on a quotient that a double holds exactly
round_half_even(num, den, scale) ==
    LET q == (num * scale) \div den
        r == (num * scale) % den
    IN  IF 2 * r < den THEN q
        ELSE IF 2 * r > den THEN q + 1
        ELSE q + (q % 2)

\* get_stats(), server.py:365-421.  average_negativity is in hundredths,
\* activity_percentage in tenths, last_conversation is the place of the entry
\* whose timestamp is reported.  An exception of the trend computation leaves
\* the request without a snapshot.
get_stats(convs, up, sd) ==
    LET recent == PyTail(up.sentiment_scores, -10)
        avg_negativity ==
            IF recent # <<>>
            THEN round_half_even(negativity_sum(recent), Len(recent), 100)
            ELSE 0
        pattern_analysis ==
            IF Len(up.sentiment_scores) >= 3 THEN analyze_pattern(up.sentiment_scores)
            ELSE <<>>
        recent_activity == PyTail(sd.motion.activity_history, -20)
        active_count == Len(SelectSeq(recent_activity, LAMBDA a : Truthy(a.is_active)))
        activity_percentage ==
            IF recent_activity # <<>>
            THEN round_half_even(active_count * 100, Len(recent_activity), 10)
            ELSE 0
        trend_info == get_trend_and_risk(up)
    IN  IF "raised" \in DOMAIN trend_info THEN [raised |-> trend_info.raised]
        ELSE
        [total_conversations |-> Len(convs) \div 2,
         loneliness_mentions |-> up.loneliness_mentions,
         average_negativity  |-> avg_negativity,
         recent_sentiments   |-> recent,
         pattern_alert       |-> pattern_analysis,
         trend               |-> trend_info,
         last_conversation   |-> IF convs # <<>> THEN Some(Len(convs)) ELSE None,
         sensors |->
            [motion |->
                [activity_status     |-> sd.motion.current_activity,
                 steps_today         |-> sd.motion.steps_today,
                 activity_percentage |-> activity_percentage,
                 last_movement       |-> sd.motion.last_movement,
                 fall_alerts         |-> PyTail(sd.motion.fall_alerts, -10),
                 recent_activity     |-> recent_activity],
             location |->
                [is_home         |-> sd.location.is_home,
                 left_home_today |-> sd.location.left_home_today,
                 last_update     |-> sd.location.last_update,
                 recent_history  |-> PyTail(sd.location.history, -10)],
             light |->
                [current_level         |-> sd.light.current_level,
                 is_dark               |-> sd.light.is_dark,
                 dark_duration_minutes |-> sd.light.dark_duration_minutes,
                 last_update           |-> sd.light.last_update]],
         combined_risk |-> get_combined_risk_assessment(up, sd)]

-----------------------------------------------------------------------------
(* server.py: websocket_client, the conversation branch *)

\* a bug that would store a record only when an emotion was detected
append_record_if_emotion(up, sentiment) ==
    IF sentiment.primary_emotion = None THEN up
    ELSE [up EXCEPT
            !.sentiment_scores = Append(@, sentiment),
            !.loneliness_mentions =
                IF sentiment.primary_emotion = Some("loneliness") THEN @ + 1 ELSE @]

\* a bug that would count every record as a loneliness mention
append_record_counting_any(up, sentiment) ==
    [up EXCEPT
        !.sentiment_scores = Append(@, sentiment),
        !.loneliness_mentions = @ + 1]

\* a bug that would keep the last ten records only, as the sensor histories do
append_record_capped(up, sentiment) ==
    [up EXCEPT
        !.sentiment_scores =
            IF Len(@) >= 10 THEN Append(Tail(@), sentiment) ELSE Append(@, sentiment),
        !.loneliness_mentions =
            IF sentiment.primary_emotion = Some("loneliness") THEN @ + 1 ELSE @]

\* user_profile after lines 477-487: the record appended, the counter bumped
append_record(up, sentiment) ==
    [up EXCEPT
        !.sentiment_scores = Append(@, sentiment),
        !.loneliness_mentions =
            IF sentiment.primary_emotion = Some("loneliness") THEN @ + 1 ELSE @]

\* a bug that would compute the reply's analyses before the record is appended
handle_conversation_stale(convs, up, sd, user_message, run) ==
    LET sentiment == analyze_sentiment(user_message)
        gen       == ai_response(run)
    IN  [conversations |->
            convs \o <<[role |-> "user", content |-> user_message],
                       [role |-> "assistant", content |-> gen.reply]>>,
         user_profile |-> append_record(up, sentiment),
         raised |-> None,
         reply |-> Some(
            [type    |-> "response",
             content |-> gen.reply,
             metadata |->
                [sentiment     |-> sentiment,
                 pattern_alert |-> analyze_pattern(up.sentiment_scores),
                 trend         |-> get_trend_and_risk(up),
                 combined_risk |-> get_combined_risk_assessment(up, sd)]])]

\* server.py:469-521 for a message that is not empty: the state it leaves and the
\* reply it hands to send_json (None when generate_response or the trend
\* computation raised on the way)
handle_conversation(convs, up, sd, user_message, run) ==
    LET convs1    == Append(convs, [role |-> "user", content |-> user_message])
        sentiment == analyze_sentiment(user_message)
        gen       == ai_response(run)
        up1       == append_record(up, sentiment)
        pattern_analysis == analyze_pattern(up1.sentiment_scores)
        trend_info == get_trend_and_risk(up1)
    IN  IF gen.raised # None
        THEN [conversations |-> convs1, user_profile |-> up1,
              raised |-> gen.raised, reply |-> None]
        ELSE
          LET convs2 == Append(convs1, [role |-> "assistant", content |-> gen.reply])
          IN  IF "raised" \in DOMAIN trend_info
              THEN [conversations |-> convs2, user_profile |-> up1,
                    raised |-> Some(trend_info.raised), reply |-> None]
              ELSE
              [conversations |-> convs2, user_profile |-> up1,
               raised |-> None,
               reply |-> Some(
                  [type    |-> "response",
                   content |-> gen.reply,
                   metadata |->
                      [sentiment     |-> sentiment,
                       pattern_alert |-> pattern_analysis,
                       trend         |-> trend_info,
                       combined_risk |-> get_combined_risk_assessment(up1, sd)]])]


-----------------------------------------------------------------------------
(* State *)

Conns == {"phone1", "phone2"}

InitProgram ==
    /\ conversations = <<>>
    /\ user_profile =
          [name |-> "User", loneliness_mentions |-> 0, sentiment_scores |-> <<>>]
    /\ sensor_data =
          [motion |->
              [current_activity |-> "unknown",
               steps_today      |-> 0,
               last_movement    |-> None,
               fall_alerts      |-> <<>>,
               activity_history |-> <<>>],
           location |->
              [is_home         |-> TRUE,
               left_home_today |-> FALSE,
               last_update     |-> None,
               history         |-> <<>>],
           light |->
              [current_level         |-> None,
               is_dark               |-> FALSE,
               dark_duration_minutes |-> 0,
               last_update           |-> None,
               history               |-> <<>>]]
    /\ outbox = [c \in Conns |-> None]
    /\ stats = None
    /\ lastEvt = [op |-> "start"]
    /\ appended = [activity |-> <<>>, falls |-> <<>>, location |-> <<>>, light |-> <<>>]
    /\ received = [messages |-> 0, nonempty |-> 0]

\* no phone connected yet
Init == InitProgram /\ pc = [c \in Conns |-> "idle"]

\* one phone connected, waiting in receive_json
InitOne == InitProgram /\ pc = [c \in Conns |-> IF c = "phone1" THEN "receive" ELSE "idle"]

-----------------------------------------------------------------------------
(* Actions.  Every action sets lastEvt to its own operation, and stats to None
   unless it is the /stats request. *)

\* websocket.accept(), server.py:428
Accept(c) ==
    /\ pc[c] = "idle"
    /\ pc' = [pc EXCEPT ![c] = "receive"]
    /\ lastEvt' = [op |-> "accept", conn |-> c]
    /\ stats' = None
    /\ UNCHANGED <<conversations, user_profile, sensor_data, outbox, appended, received>>

\* server.py:441-443
ReceiveMotion(c, data) ==
    /\ pc[c] = "receive"
    /\ GetD(data, "type", "message") = "motion_update"
    /\ sensor_data' = handle_motion_update(sensor_data, data)
    /\ appended' = [appended EXCEPT !.activity = Append(@, activity_snapshot(data))]
    /\ lastEvt' = [op |-> "motion_update", conn |-> c, data |-> data, raised |-> None]
    /\ stats' = None
    /\ UNCHANGED <<conversations, user_profile, pc, outbox, received>>

\* server.py:445-451; an exception leaves the loop through line 525
ReceiveFall(c, data) ==
    /\ pc[c] = "receive"
    /\ GetD(data, "type", "message") = "fall_alert"
    /\ IF fall_alert_raises(data)
       THEN /\ pc' = [pc EXCEPT ![c] = "closed"]
            /\ lastEvt' = [op |-> "fall_alert", conn |-> c, data |-> data,
                           raised |-> Some("TypeError")]
            /\ UNCHANGED <<sensor_data, appended, outbox>>
       ELSE /\ sensor_data' = handle_fall_alert(sensor_data, data)
            /\ appended' = [appended EXCEPT !.falls = Append(@, fall_event(data))]
            /\ outbox' = [outbox EXCEPT ![c] =
                    Some([type |-> "fall_alert_received",
                          message |-> "Fall alert received and logged."])]
            /\ pc' = [pc EXCEPT ![c] = "send"]
            /\ lastEvt' = [op |-> "fall_alert", conn |-> c, data |-> data, raised |-> None]
    /\ stats' = None
    /\ UNCHANGED <<conversations, user_profile, received>>

\* server.py:453-455
ReceiveLocation(c, data) ==
    /\ pc[c] = "receive"
    /\ GetD(data, "type", "message") = "location_update"
    /\ sensor_data' = handle_location_update(sensor_data, data)
    /\ appended' = [appended EXCEPT !.location = Append(@, location_snapshot(data))]
    /\ lastEvt' = [op |-> "location_update", conn |-> c, data |-> data, raised |-> None]
    /\ stats' = None
    /\ UNCHANGED <<conversations, user_profile, pc, outbox, received>>

\* server.py:457-459
ReceiveLight(c, data) ==
    /\ pc[c] = "receive"
    /\ GetD(data, "type", "message") = "light_update"
    /\ sensor_data' = handle_light_update(sensor_data, data)
    /\ appended' = [appended EXCEPT !.light = Append(@, light_snapshot(data))]
    /\ lastEvt' = [op |-> "light_update", conn |-> c, data |-> data, raised |-> None]
    /\ stats' = None
    /\ UNCHANGED <<conversations, user_profile, pc, outbox, received>>

SensorTypes == {"motion_update", "fall_alert", "location_update", "light_update"}

\* server.py:464-521: any other message is conversation; run is what the
\* text-generation process does if it is called
ReceiveMessage(c, data, run) ==
    /\ pc[c] = "receive"
    /\ GetD(data, "type", "message") \notin SensorTypes
    /\ LET user_message == strip(GetD(data, "content", ""))
           done == handle_conversation(conversations, user_profile, sensor_data,
                                       user_message, run)
       IN  IF user_message = ""
           THEN /\ received' = [received EXCEPT !.messages = @ + 1]
                /\ lastEvt' = [op |-> "message", conn |-> c, data |-> data,
                               run |-> None, raised |-> None]
                /\ UNCHANGED <<conversations, user_profile, pc, outbox>>
           ELSE /\ received' = [received EXCEPT !.messages = @ + 1, !.nonempty = @ + 1]
                /\ conversations' = done.conversations
                /\ user_profile' = done.user_profile
                /\ lastEvt' = [op |-> "message", conn |-> c, data |-> data,
                               run |-> Some(run), raised |-> done.raised]
                /\ IF done.raised # None
                   THEN /\ pc' = [pc EXCEPT ![c] = "closed"]
                        /\ UNCHANGED outbox
                   ELSE /\ pc' = [pc EXCEPT ![c] = "send"]
                        /\ outbox' = [outbox EXCEPT ![c] = done.reply]
    /\ stats' = None
    /\ UNCHANGED <<sensor_data, appended>>

\* send_json returns, server.py:447 and 511: back to receive_json
SendDone(c) ==
    /\ pc[c] = "send"
    /\ pc' = [pc EXCEPT ![c] = "receive"]
    /\ lastEvt' = [op |-> "sent", conn |-> c]
    /\ stats' = None
    /\ UNCHANGED <<conversations, user_profile, sensor_data, outbox, appended, received>>

\* receive_json or send_json raises WebSocketDisconnect, server.py:523
Disconnect(c) ==
    /\ pc[c] \in {"receive", "send"}
    /\ pc' = [pc EXCEPT ![c] = "closed"]
    /\ lastEvt' = [op |-> "disconnect", conn |-> c]
    /\ stats' = None
    /\ UNCHANGED <<conversations, user_profile, sensor_data, outbox, appended, received>>

\* a bug that would take the last conversation off the list to read its timestamp
GetStatsPopping ==
    /\ stats' = Some(get_stats(conversations, user_profile, sensor_data))
    /\ lastEvt' = [op |-> "stats"]
    /\ conversations' = pop_last(conversations)
    /\ UNCHANGED <<user_profile, sensor_data, pc, outbox, appended, received>>

\* GET /stats, server.py:365-421
GetStats ==
    /\ stats' = Some(get_stats(conversations, user_profile, sensor_data))
    /\ lastEvt' = [op |-> "stats"]
    /\ UNCHANGED <<conversations, user_profile, sensor_data, pc, outbox, appended, received>>


-----------------------------------------------------------------------------
(* SpecHist: one phone sending long runs of sensor events, so that every bounded
   list overflows.  The n-th event of a channel carries n in its fields, and the
   first event of a channel may also come with every field missing.  One channel
   at a time runs long: an event is taken on a channel while the other channels
   together have had at most MaxShort events. *)

MaxShort == 1

MaxExtra == 2

Restrict(data, keys) == [k \in keys \cap DOMAIN data |-> data[k]]

MotionAt(n) ==
    [type |-> "motion_update", isActive |-> (n % 2 = 0), steps |-> 10 * n,
     lastMovement |-> n, timestamp |-> n + 1, movementCount |-> n]

FallAt(n) == [type |-> "fall_alert", timestamp |-> 1000 * n + n + 1, magnitude |-> 30 + n]

LocationAt(n) ==
    [type |-> "location_update", isHome |-> (n % 2 = 0), leftHomeToday |-> (n % 2 = 1),
     timestamp |-> n + 1, distance |-> n]

LightAt(n) ==
    [type |-> "light_update", currentLevel |-> n, isDark |-> (n % 2 = 1),
     darkDuration |-> n, timestamp |-> n + 1]

\* the events a channel may send after n events: the n-th, and first also a bare one
RunEvents(full, n) == IF n = 0 THEN {full, Restrict(full, {"type"})} ELSE {full}

Channels == {"activity", "falls", "location", "light"}

Cap(ch) == IF ch = "falls" THEN 50 ELSE 100

RECURSIVE SumOver(_, _)
SumOver(f, S) ==
    IF S = {} THEN 0
    ELSE LET x == CHOOSE y \in S : TRUE IN f[x] + SumOver(f, S \ {x})

MayRun(ch) ==
    /\ Len(appended[ch]) < Cap(ch) + MaxExtra
    /\ SumOver([o \in Channels |-> Len(appended[o])], Channels \ {ch}) <= MaxShort

NextHist ==
    \/ \E data \in RunEvents(MotionAt(Len(appended.activity)), Len(appended.activity)) :
          MayRun("activity") /\ ReceiveMotion("phone1", data)
    \/ \E data \in RunEvents(FallAt(Len(appended.falls)), Len(appended.falls)) :
          /\ MayRun("falls") /\ ~fall_alert_raises(data)
          /\ ReceiveFall("phone1", data)
    \/ \E data \in RunEvents(LocationAt(Len(appended.location)), Len(appended.location)) :
          MayRun("location") /\ ReceiveLocation("phone1", data)
    \/ \E data \in RunEvents(LightAt(Len(appended.light)), Len(appended.light)) :
          MayRun("light") /\ ReceiveLight("phone1", data)
    \/ SendDone("phone1")

SpecHist == InitOne /\ [][NextHist]_vars

\* the last min(Len(log), cap) entries of log, in order
LastN(log, cap) ==
    LET n == Len(log)
        m == IF n < cap THEN n ELSE cap
    IN  [i \in 1..m |-> log[n - m + i]]

\* C1: each bounded history holds exactly the most recent min(n, cap) entries
\* appended to it, in append order (cap 100 for activity_history, location history
\* and light history, 50 for fall_alerts); so it never exceeds its cap and, once
\* anything was appended, its last element is the entry appended last.
C1_BoundedHistories ==
    /\ sensor_data.motion.activity_history = LastN(appended.activity, 100)
    /\ sensor_data.motion.fall_alerts = LastN(appended.falls, 50)
    /\ sensor_data.location.history = LastN(appended.location, 100)
    /\ sensor_data.light.history = LastN(appended.light, 100)
    /\ Len(sensor_data.motion.activity_history) <= 100
    /\ Len(appended.activity) > 100 => Len(sensor_data.motion.activity_history) = 100
    /\ \A ch \in Channels :
          LET hist == CASE ch = "activity" -> sensor_data.motion.activity_history
                        [] ch = "falls" -> sensor_data.motion.fall_alerts
                        [] ch = "location" -> sensor_data.location.history
                        [] ch = "light" -> sensor_data.light.history
          IN  appended[ch] # <<>> =>
                 hist # <<>> /\ hist[Len(hist)] = appended[ch][Len(appended[ch])]

\* C1 witness: more than 100 motion updates were handled and the oldest were evicted
C1_Witness ==
    /\ Len(appended.activity) > 100
    /\ Len(sensor_data.motion.activity_history) = 100
    /\ sensor_data.motion.activity_history[1] # appended.activity[1]


\* histories of four like records: emotional risk low, medium and high
SampleHistories ==
    {<<>>} \cup {[i \in 1..4 |-> analyze_sentiment(t)] : t \in {TextCalm, TextModerate, TextSevere}}

risk_score_of(up, sd) == get_combined_risk_assessment(up, sd).risk_score

\* C7: once at least one fall alert has been recorded, however many were recorded
\* and evicted since, risk_score is exactly 3 above what it would be with no fall
\* alert and everything else the same, whatever the emotional history.
C7_FallContributionBinary ==
    \A h \in SampleHistories \cup {user_profile.sentiment_scores} :
        LET up == [user_profile EXCEPT !.sentiment_scores = h]
            no_falls == [sensor_data EXCEPT !.motion.fall_alerts = <<>>]
        IN  risk_score_of(up, sensor_data) =
                risk_score_of(up, no_falls) + (IF appended.falls # <<>> THEN 3 ELSE 0)

\* C7 witness: more than 50 fall alerts were recorded, the oldest evicted
C7_Witness ==
    /\ Len(appended.falls) > 50
    /\ Len(sensor_data.motion.fall_alerts) = 50
    /\ risk_score_of(user_profile, sensor_data) = 6


-----------------------------------------------------------------------------
(* After a fall: one phone sends fall alerts past the cap of 50 and, at any
   time in between or after, up to MaxLater motion updates, location updates
   and utterances. *)

MaxLater == 2

LaterEvents == Len(appended.activity) + Len(appended.location) + received.messages

NextFallen ==
    \/ /\ Len(appended.falls) < Cap("falls") + MaxExtra
       /\ ReceiveFall("phone1", FallAt(Len(appended.falls)))
    \/ /\ LaterEvents < MaxLater
       /\ ReceiveMotion("phone1", MotionAt(60))
    \/ /\ LaterEvents < MaxLater
       /\ ReceiveLocation("phone1", LocationAt(1))
    \/ /\ LaterEvents < MaxLater
       /\ ReceiveMessage("phone1", [type |-> "message", content |-> TextCalm], RunOk)
    \/ SendDone("phone1")

SpecFallen == InitOne /\ [][NextFallen]_vars

\* C22: once a fall alert has been recorded fall_alerts is not empty, and a step
\* never empties it; so the combined risk_score is at least 3 and
\* overall_risk_level is not low, whatever the emotional history and whatever
\* sensor events came after.
C22_FallAlertsStay ==
    /\ appended.falls # <<>> =>
          /\ sensor_data.motion.fall_alerts # <<>>
          /\ \A h \in SampleHistories \cup {user_profile.sentiment_scores} :
                LET a == get_combined_risk_assessment(
                            [user_profile EXCEPT !.sentiment_scores = h], sensor_data)
                IN  a.risk_score >= 3 /\ a.overall_risk_level # "low"
    /\ appended.falls = <<>> => sensor_data.motion.fall_alerts = <<>>

\* C22 witness: the 51st fall alert evicted the first, a motion update of 600 or
\* more steps and a location update away from home followed, and the score is
\* the 3 of the fall alerts alone
C22_Witness ==
    /\ Len(appended.falls) = 51
    /\ Len(sensor_data.motion.fall_alerts) = 50
    /\ lastEvt.op \in {"motion_update", "location_update"}
    /\ risk_score_of(user_profile, sensor_data) = 3
    /\ get_combined_risk_assessment(user_profile, sensor_data).overall_risk_level
          = "moderate"

-----------------------------------------------------------------------------
(* SpecConv: one phone in conversation, the text-generation process ending every
   way it can; one fall alert may arrive in between. *)

MaxMessages == 3

\* conversation messages: no content, blank content, and two that are not empty
\* (one without a type and with blanks around the text)
ConvMessages ==
    {[type |-> "message"],
     [type |-> "message", content |-> "  \n"],
     [content |-> " hello there "],
     [type |-> "message", content |-> TextLonely]}

\* the call timed out or failed, or the process exited non-zero or printed nothing
RunFailed(run) ==
    run.raised # None \/ run.returncode # 0 \/ strip(run.stdout) = ""

NextConv ==
    \/ \E data \in ConvMessages, run \in Runs :
          /\ received.messages < MaxMessages
          /\ strip(GetD(data, "content", "")) = "" => run = RunOk
          /\ ReceiveMessage("phone1", data, run)
    \/ /\ appended.falls = <<>>
       /\ ReceiveFall("phone1", FallAt(0))
    \/ SendDone("phone1")

SpecConv == InitOne /\ [][NextConv]_vars

\* C3 as claimed: after k conversation messages the history has exactly k records,
\* empty and whitespace-only ones included.
C3_EveryMessageRecorded == Len(user_profile.sentiment_scores) = received.messages

\* C3 as amended: every message whose text is not empty once stripped produces
\* exactly one record, appended to the history (the record of that text, which has
\* negativity 0 and severity none when no phrase matches); a message with empty,
\* whitespace-only or missing content is skipped and produces none.  After k
\* non-empty messages the history has exactly k records.
C3_NonEmptyMessagesRecorded ==
    /\ Len(user_profile.sentiment_scores) = received.nonempty
    /\ (lastEvt.op = "message" /\ lastEvt.run # None) =>
          /\ user_profile.sentiment_scores # <<>>
          /\ user_profile.sentiment_scores[Len(user_profile.sentiment_scores)]
                = AnalyzeTable[strip(lastEvt.data.content)]

\* C3 witness: blank messages were skipped and a message without any emotion
\* was recorded
C3_Witness ==
    /\ received.messages = 3
    /\ received.nonempty = 2
    /\ Len(user_profile.sentiment_scores) = 2
    /\ user_profile.sentiment_scores[2].primary_emotion = None


\* C4: whatever subprocess.run did for a message, the step leaves the user profile
\* that a successful generation leaves (exactly one record more), leaves the sensor
\* state alone, and hands send_json a reply whose sentiment, pattern, trend and
\* combined-risk values are those of a successful generation.
C4_GenerationOutcomeIrrelevant ==
    [][(lastEvt'.op = "message" /\ lastEvt'.run # None) =>
          LET c  == lastEvt'.conn
              ok == handle_conversation(conversations, user_profile, sensor_data,
                                        strip(lastEvt'.data.content), RunOk)
          IN  /\ user_profile' = ok.user_profile
              /\ Len(user_profile'.sentiment_scores) = Len(user_profile.sentiment_scores) + 1
              /\ sensor_data' = sensor_data
              /\ pc'[c] = "send"
              /\ outbox'[c] # None
              /\ TheValue(outbox'[c]).type = "response"
              /\ TheValue(outbox'[c]).metadata = TheValue(ok.reply).metadata]_vars

\* C4 witness: after a fall alert, a message whose generation timed out has been
\* handled and its reply is on its way
C4_Witness ==
    /\ lastEvt.op = "message"
    /\ lastEvt.run # None
    /\ TheValue(lastEvt.run).raised = Some("TimeoutExpired")
    /\ pc[lastEvt.conn] = "send"
    /\ Len(user_profile.sentiment_scores) = 2
    /\ sensor_data.motion.fall_alerts # <<>>
    /\ TheValue(outbox[lastEvt.conn]).metadata.combined_risk.risk_score = 6

\* C5 as claimed: when the call timed out or failed, or the process exited
\* non-zero or printed nothing, the reply is one of the fixed fallback strings
\* and the loop goes on.
C5_FallbackOnEveryFailure ==
    (lastEvt.op = "message" /\ lastEvt.run # None /\ RunFailed(TheValue(lastEvt.run))) =>
        /\ pc[lastEvt.conn] = "send"
        /\ TheValue(outbox[lastEvt.conn]).content \in fallback_replies

\* What holds of the code: the fallback is sent when subprocess.run raised or the
\* output was empty; the exit status is never looked at.
FallbackOnExceptionOrEmptyOutput ==
    (/\ lastEvt.op = "message"
     /\ lastEvt.run # None
     /\ \/ TheValue(lastEvt.run).raised # None
        \/ strip(TheValue(lastEvt.run).stdout) = "") =>
        /\ pc[lastEvt.conn] = "send"
        /\ TheValue(outbox[lastEvt.conn]).content \in fallback_replies

\* C23: whenever an event can be read, loneliness_mentions equals the number of
\* records of the whole history whose primary_emotion is loneliness; the step
\* that appends such a record adds one to it, and no other step changes it.
C23_LonelinessCounter ==
    LET h == user_profile.sentiment_scores
        lonely == {i \in DOMAIN h : h[i].primary_emotion = Some("loneliness")}
    IN  /\ user_profile.loneliness_mentions = Cardinality(lonely)
        /\ (lastEvt.op = "message" /\ strip(GetD(lastEvt.data, "content", "")) # "") =>
              (Len(h) \in lonely <=>
                  analyze_sentiment(strip(lastEvt.data.content)).primary_emotion
                      = Some("loneliness"))
        /\ user_profile.loneliness_mentions <= received.nonempty

\* C23 witness: three utterances were recorded, two of loneliness and one
\* without any emotion, the last one while the text generation timed out
C23_Witness ==
    /\ Len(user_profile.sentiment_scores) = 3
    /\ user_profile.loneliness_mentions = 2
    /\ user_profile.sentiment_scores[2].primary_emotion = None
    /\ user_profile.sentiment_scores[3].primary_emotion = Some("loneliness")
    /\ lastEvt.op = "message"
    /\ lastEvt.run # None
    /\ TheValue(lastEvt.run).raised = Some("TimeoutExpired")

-----------------------------------------------------------------------------
(* SpecFields: one phone sending sensor events in which any subset of the fields
   is missing. *)

MaxFieldEvents == 2

\* full with every subset of its fields but the type
FieldEvents(full) ==
    {Restrict(full, K \cup {"type"}) : K \in SUBSET (DOMAIN full \ {"type"})}

FieldsOpen ==
    SumOver([o \in Channels |-> Len(appended[o])], Channels) < MaxFieldEvents

NextFields ==
    \/ \E data \in FieldEvents(MotionAt(60)) : FieldsOpen /\ ReceiveMotion("phone1", data)
    \/ \E data \in FieldEvents(FallAt(0)) : FieldsOpen /\ ReceiveFall("phone1", data)
    \/ \E data \in FieldEvents(LocationAt(1)) : FieldsOpen /\ ReceiveLocation("phone1", data)
    \/ \E data \in FieldEvents(LightAt(1)) : FieldsOpen /\ ReceiveLight("phone1", data)
    \/ SendDone("phone1")

SpecFields == InitOne /\ [][NextFields]_vars

\* C2: a sensor event with any subset of its fields missing is handled without an
\* error, and the loop keeps reading.
C2_SensorEventsNeverFail ==
    lastEvt.op \in SensorTypes =>
        lastEvt.raised = None /\ pc[lastEvt.conn] # "closed"

\* What holds of the code: the only sensor event that fails is a fall alert
\* without a timestamp; it records nothing and ends the connection's loop.
OnlyFallWithoutTimestampFails ==
    lastEvt.op \in SensorTypes =>
        /\ lastEvt.raised # None <=>
              (lastEvt.op = "fall_alert" /\ "timestamp" \notin DOMAIN lastEvt.data)
        /\ lastEvt.raised # None => pc[lastEvt.conn] = "closed"


-----------------------------------------------------------------------------
(* Spec: the whole server.  Two phones connect, send sensor events and messages
   in any order and disconnect, while the dashboard polls /stats. *)

MaxEvents == 2

EventsRead ==
    SumOver([o \in Channels |-> Len(appended[o])], Channels) + received.messages

EventsOpen == EventsRead < MaxEvents

RunTimeout == [raised |-> Some("TimeoutExpired"), returncode |-> 0, stdout |-> ""]

RunExit1 == [raised |-> None, returncode |-> 1, stdout |-> "I'm so sor"]

Next ==
    \/ \E c \in Conns : Accept(c)
    \/ \E c \in Conns, data \in {MotionAt(60), Restrict(MotionAt(60), {"type"})} :
          EventsOpen /\ ReceiveMotion(c, data)
    \/ \E c \in Conns, data \in {FallAt(0), Restrict(FallAt(0), {"type", "magnitude"})} :
          EventsOpen /\ ReceiveFall(c, data)
    \/ \E c \in Conns, data \in {LocationAt(1), Restrict(LocationAt(1), {"type"})} :
          EventsOpen /\ ReceiveLocation(c, data)
    \/ \E c \in Conns, data \in {LightAt(1), Restrict(LightAt(1), {"type"})} :
          EventsOpen /\ ReceiveLight(c, data)
    \/ \E c \in Conns, content \in {TextSevere, "  \n"}, run \in {RunOk, RunTimeout, RunExit1} :
          /\ EventsOpen
          /\ strip(content) = "" => run = RunOk
          /\ ReceiveMessage(c, [type |-> "message", content |-> content], run)
    \/ \E c \in Conns : SendDone(c)
    \/ \E c \in Conns : Disconnect(c)
    \/ GetStats

Spec == Init /\ [][Next]_vars


\* C8: a /stats request, which computes the trend and the combined risk
\* assessment, changes nothing of the program state, reports the assessment of
\* that unchanged state, and a second request right after it returns the same.
C8_AssessmentChangesNothing ==
    [][lastEvt'.op = "stats" =>
          /\ conversations' = conversations
          /\ user_profile' = user_profile
          /\ sensor_data' = sensor_data
          /\ pc' = pc /\ outbox' = outbox
          /\ TheValue(stats').combined_risk =
                get_combined_risk_assessment(user_profile', sensor_data')
          /\ TheValue(stats').total_conversations = Len(conversations') \div 2
          /\ stats # None => stats' = stats]_vars

\* C8 witness: /stats has answered after a conversation and a fall alert
C8_Witness ==
    /\ stats # None
    /\ lastEvt.op = "stats"
    /\ Len(conversations) = 2
    /\ sensor_data.motion.fall_alerts # <<>>
    /\ TheValue(stats).total_conversations = 1
    /\ TheValue(stats).combined_risk.risk_score = 6


\* C20: a motion update leaves fall_alerts, location, light, the sentiment
\* history, the loneliness counter and the conversations as they were; a fall
\* alert changes nothing but fall_alerts; a location update nothing but the
\* location channel; a light update nothing but the light channel; and an
\* utterance leaves the whole sensor state as it was.
C20_HandlersKeepToTheirChannel ==
    [][LET op == lastEvt'.op
           rest_same == user_profile' = user_profile /\ conversations' = conversations
       IN  /\ op = "motion_update" =>
                 /\ sensor_data'.motion.fall_alerts = sensor_data.motion.fall_alerts
                 /\ sensor_data'.location = sensor_data.location
                 /\ sensor_data'.light = sensor_data.light
                 /\ rest_same
           /\ op = "fall_alert" =>
                 /\ sensor_data' =
                       [sensor_data EXCEPT
                           !.motion.fall_alerts = sensor_data'.motion.fall_alerts]
                 /\ rest_same
           /\ op = "location_update" =>
                 /\ sensor_data'.motion = sensor_data.motion
                 /\ sensor_data'.light = sensor_data.light
                 /\ rest_same
           /\ op = "light_update" =>
                 /\ sensor_data'.motion = sensor_data.motion
                 /\ sensor_data'.location = sensor_data.location
                 /\ rest_same
           /\ op = "message" => sensor_data' = sensor_data]_vars

\* C20 witness: a motion update was handled after a fall alert, which is still
\* there
C20_Witness ==
    /\ lastEvt.op = "motion_update"
    /\ sensor_data.motion.steps_today = 600
    /\ Len(sensor_data.motion.activity_history) = 1
    /\ Len(sensor_data.motion.fall_alerts) = 1

\* C24: whenever another event or a /stats request can read the state, the
\* conversation log holds a user entry followed by an assistant entry for each
\* record of the sentiment history, so its length is even and twice the number
\* of records, which is the number of non-blank utterances read; the
\* total_conversations that /stats reports is the number of records; sensor
\* events and blank utterances add nothing to either.
C24_TwoEntriesPerRecord ==
    LET h == user_profile.sentiment_scores
    IN  /\ Len(conversations) = 2 * Len(h)
        /\ Len(conversations) % 2 = 0
        /\ Len(h) = received.nonempty
        /\ \A i \in DOMAIN conversations :
              conversations[i].role = IF i % 2 = 1 THEN "user" ELSE "assistant"
        /\ stats # None => TheValue(stats).total_conversations = Len(h)

\* C24 witness: /stats answers after a blank utterance, which was skipped, and
\* an utterance whose text generation timed out
C24_Witness ==
    /\ lastEvt.op = "stats"
    /\ stats # None
    /\ received.messages = 2
    /\ received.nonempty = 1
    /\ Len(user_profile.sentiment_scores) = 1
    /\ conversations[1].role = "user"
    /\ conversations[2] = [role |-> "assistant", content |-> "I'm here with you."]
    /\ TheValue(stats).total_conversations = 1

-----------------------------------------------------------------------------
(* Serial handling: two phones connect and send up to MaxSerialMessages
   utterances between them, and one fall alert, each reply being sent while
   the other phone's events are read. *)

MaxSerialMessages == 3

NextSerial ==
    \/ \E c \in Conns : Accept(c)
    \/ \E c \in Conns, content \in {TextCalm, TextSevere} :
          /\ received.messages < MaxSerialMessages
          /\ ReceiveMessage(c, [type |-> "message", content |-> content], RunOk)
    \/ \E c \in Conns :
          /\ appended.falls = <<>>
          /\ ReceiveFall(c, FallAt(0))
    \/ \E c \in Conns : SendDone(c)

SpecSerial == Init /\ [][NextSerial]_vars

\* C19: with several connections open, the step that handles an utterance appends
\* exactly that utterance's record to the history and computes the pattern, trend
\* and combined risk of its reply on the state that step leaves, in which that
\* record is the last of the history and the sensor state is what it was: no
\* other event is applied in between.  A reply still being sent is not touched
\* by the events of another connection.
C19_ReplyComputedOnOwnRecord ==
    [][(lastEvt'.op = "message" /\ lastEvt'.run # None) =>
          LET c == lastEvt'.conn
              text == strip(lastEvt'.data.content)
              h == user_profile'.sentiment_scores
              m == TheValue(outbox'[c]).metadata
          IN  /\ h = Append(user_profile.sentiment_scores, analyze_sentiment(text))
              /\ sensor_data' = sensor_data
              /\ pc'[c] = "send"
              /\ m.sentiment = h[Len(h)]
              /\ m.pattern_alert = analyze_pattern(h)
              /\ m.trend = get_trend_and_risk(user_profile')
              /\ m.combined_risk = get_combined_risk_assessment(user_profile', sensor_data')
              /\ \A d \in Conns \ {c} : outbox'[d] = outbox[d] /\ pc'[d] = pc[d]]_vars

\* C19 witness: while phone1 is still being sent the reply to the second
\* utterance, phone2 sends the third: its reply reports the pattern of three
\* severe records, phone1's reply that of two
C19_Witness ==
    /\ pc["phone1"] = "send" /\ pc["phone2"] = "send"
    /\ lastEvt.op = "message" /\ lastEvt.conn = "phone2"
    /\ Len(user_profile.sentiment_scores) = 3
    /\ TheValue(outbox["phone1"]).type = "response"
    /\ ~TheValue(outbox["phone1"]).metadata.pattern_alert.pattern_detected
    /\ TheValue(outbox["phone2"]).metadata.sentiment = user_profile.sentiment_scores[3]
    /\ TheValue(outbox["phone2"]).metadata.pattern_alert.pattern_detected
    /\ TheValue(outbox["phone2"]).metadata.pattern_alert.high_negativity_count = 3

-----------------------------------------------------------------------------
(* Risk fusion: one phone sends up to MaxRiskMessages utterances of negativity
   0, 30 and 60 and up to MaxRiskSensor events on each of the motion, fall and
   location channels, in any order, so that every combination of the three
   physical factors meets every emotional risk level. *)

MaxRiskMessages == 4

MaxRiskSensor == 1

RiskTexts == {TextCalm, TextModerate, TextSevere}

NextRisk ==
    \/ \E content \in RiskTexts :
          /\ received.messages < MaxRiskMessages
          /\ ReceiveMessage("phone1", [type |-> "message", content |-> content], RunOk)
    \/ /\ Len(appended.activity) < MaxRiskSensor
       /\ ReceiveMotion("phone1", MotionAt(60 + Len(appended.activity)))
    \/ /\ Len(appended.falls) < MaxRiskSensor
       /\ ReceiveFall("phone1", FallAt(Len(appended.falls)))
    \/ /\ Len(appended.location) < MaxRiskSensor
       /\ ReceiveLocation("phone1", LocationAt(1 + Len(appended.location)))
    \/ SendDone("phone1")

SpecRisk == InitOne /\ [][NextRisk]_vars

\* C6: risk_score is 2 for fewer than 500 steps, plus 1 for not having left home,
\* plus 3 for any fall alert, plus 3 / 2 / 0 for an emotional risk level of high /
\* medium / anything else; it lies in 0..9; and overall_risk_level is critical
\* iff score >= 6, high iff 4..5, moderate iff 2..3, low iff <= 1.  This holds of
\* the assessment of the current state and of the one sent in the last reply.
C6_CombinedRiskScore ==
    LET level == get_trend_and_risk(user_profile).risk_level
        expected ==
            (IF sensor_data.motion.steps_today < 500 THEN 2 ELSE 0)
            + (IF ~sensor_data.location.left_home_today THEN 1 ELSE 0)
            + (IF sensor_data.motion.fall_alerts # <<>> THEN 3 ELSE 0)
            + (CASE level = "high" -> 3 [] level = "medium" -> 2 [] OTHER -> 0)
        now == get_combined_risk_assessment(user_profile, sensor_data)
        sent == IF pc["phone1"] = "send" /\ lastEvt.op = "message"
                THEN {TheValue(outbox["phone1"]).metadata.combined_risk}
                ELSE {}
    IN  /\ now.risk_score = expected
        /\ now.emotional_component.risk_level = level
        /\ \A a \in {now} \cup sent :
              /\ a.risk_score \in 0..9
              /\ a.overall_risk_level = "critical" <=> a.risk_score >= 6
              /\ a.overall_risk_level = "high" <=> a.risk_score \in 4..5
              /\ a.overall_risk_level = "moderate" <=> a.risk_score \in 2..3
              /\ a.overall_risk_level = "low" <=> a.risk_score <= 1
        /\ \A a \in sent : a = now

\* C6 witness: a medium emotional risk on top of a fall, with the user active and
\* out of home: 3 + 2 = 5, high
C6_Witness ==
    /\ Len(user_profile.sentiment_scores) >= 4
    /\ get_trend_and_risk(user_profile).risk_level = "medium"
    /\ sensor_data.motion.steps_today >= 500
    /\ sensor_data.location.left_home_today
    /\ sensor_data.motion.fall_alerts # <<>>
    /\ pc["phone1"] = "send" /\ lastEvt.op = "message"
    /\ TheValue(outbox["phone1"]).metadata.combined_risk.risk_score = 5
    /\ TheValue(outbox["phone1"]).metadata.combined_risk.overall_risk_level = "high"

\* C9: with fewer than 4 records in the history, whatever they contain, the trend
\* result is exactly trend = insufficient_data, risk_level = low,
\* recent_avg_negativity = 0, in the assessment and in the reply just sent, and the
\* emotional component adds nothing to the combined risk_score.
C9_ShortHistoryInsufficient ==
    Len(user_profile.sentiment_scores) < 4 =>
        LET insufficient ==
                [trend |-> "insufficient_data", risk_level |-> "low",
                 recent_avg_negativity |-> 0]
            now == get_combined_risk_assessment(user_profile, sensor_data)
        IN  /\ get_trend_and_risk(user_profile) = insufficient
            /\ now.emotional_component = insufficient
            /\ now.risk_score =
                  risk_score_of([user_profile EXCEPT !.sentiment_scores = <<>>],
                                sensor_data)
            /\ now.risk_score <= 6
            /\ (pc["phone1"] = "send" /\ lastEvt.op = "message") =>
                  /\ TheValue(outbox["phone1"]).metadata.trend = insufficient
                  /\ TheValue(outbox["phone1"]).metadata.combined_risk = now

\* C9 witness: three utterances of negativity 60 were recorded and answered
C9_Witness ==
    /\ Len(user_profile.sentiment_scores) = 3
    /\ \A i \in 1..3 : user_profile.sentiment_scores[i].negativity_score = 60
    /\ pc["phone1"] = "send" /\ lastEvt.op = "message"
    /\ TheValue(outbox["phone1"]).metadata.trend.trend = "insufficient_data"


-----------------------------------------------------------------------------
(* Trend: one phone sends up to MaxTrendMessages utterances of negativity 0, 30
   and 60, so that the history outgrows the six records the trend reads and
   their sums meet every threshold exactly. *)

MaxTrendMessages == 7

NextTrend ==
    \/ \E content \in RiskTexts :
          /\ received.messages < MaxTrendMessages
          /\ ReceiveMessage("phone1", [type |-> "message", content |-> content], RunOk)
    \/ SendDone("phone1")

SpecTrend == InitOne /\ [][NextTrend]_vars

\* C10: with at least 6 records, R the sum of the negativity scores of the last 3
\* and O the sum of the 3 before them (the means are R/3 and O/3): trend is
\* worsening iff R/3 > O/3 + 10, improving iff R/3 < O/3 - 10, otherwise stable;
\* risk_level is high iff R/3 >= 60, medium iff 30 <= R/3 < 60, otherwise low;
\* the result is that of the last 6 records alone; and scores
\* [10,10,10,70,70,70] give worsening and high.
C10_TrendOfLastSix ==
    LET h == user_profile.sentiment_scores
        n == Len(h)
        t == get_trend_and_risk(user_profile)
        example == [i \in 1..6 |-> [negativity_score |-> IF i <= 3 THEN 10 ELSE 70]]
    IN  /\ n >= 6 =>
            LET R == h[n].negativity_score + h[n - 1].negativity_score
                        + h[n - 2].negativity_score
                O == h[n - 3].negativity_score + h[n - 4].negativity_score
                        + h[n - 5].negativity_score
            IN  /\ t.trend = "worsening" <=> R > O + 30
                /\ t.trend = "improving" <=> R < O - 30
                /\ t.trend = "stable" <=> (R <= O + 30 /\ R >= O - 30)
                /\ t.risk_level = "high" <=> R >= 180
                /\ t.risk_level = "medium" <=> (R >= 90 /\ R < 180)
                /\ t.risk_level = "low" <=> R < 90
                /\ t = compute_trend_and_risk(SubSeq(h, n - 5, n))
                /\ (pc["phone1"] = "send" /\ lastEvt.op = "message") =>
                      TheValue(outbox["phone1"]).metadata.trend = t
        /\ n >= 1 =>
              /\ compute_trend_and_risk(example).trend = "worsening"
              /\ compute_trend_and_risk(example).risk_level = "high"
              /\ compute_trend_and_risk(<<h[1]>> \o example)
                    = compute_trend_and_risk(example)

\* C10 witness: seven records, the first of negativity 60 and outside the window,
\* then 0, 0, 0 and a last three summing to 60: worsening, low
C10_Witness ==
    LET h == user_profile.sentiment_scores
    IN  /\ Len(h) = 7
        /\ h[1].negativity_score = 60
        /\ \A i \in 2..4 : h[i].negativity_score = 0
        /\ h[5].negativity_score + h[6].negativity_score + h[7].negativity_score = 60
        /\ pc["phone1"] = "send" /\ lastEvt.op = "message"
        /\ TheValue(outbox["phone1"]).metadata.trend.trend = "worsening"
        /\ TheValue(outbox["phone1"]).metadata.trend.risk_level = "low"


\* the sum of the negativity scores of h[from..to]
ScoreSum(h, from, to) == SumSeq([i \in 1..(to - from + 1) |-> h[from + i - 1].negativity_score])

\* C15 as claimed: with 4 or 5 records the older window has 1 or 2 records and
\* older_avg is the sum of their scores divided by 3, so that, R being the sum of
\* the last three scores and O that of the older window, trend is worsening iff
\* R/3 > O/3 + 10 and improving iff R/3 < O/3 - 10.
C15_OlderAverageOverThree ==
    LET h == user_profile.sentiment_scores
        n == Len(h)
        t == get_trend_and_risk(user_profile)
    IN  n \in {4, 5} =>
            LET R == ScoreSum(h, n - 2, n)
                O == ScoreSum(h, 1, n - 3)
            IN  /\ t.trend = "worsening" <=> R > O + 30
                /\ t.trend = "improving" <=> R < O - 30

\* C15 as amended: with 4 or 5 records the older window has k = 1 or 2 records
\* and older_avg is the sum of their scores divided by k, the number of records
\* it holds: trend is worsening iff R/3 > O/k + 10, improving iff R/3 < O/k - 10,
\* else stable.
C15_OlderAverageOverItsLength ==
    LET h == user_profile.sentiment_scores
        n == Len(h)
        t == get_trend_and_risk(user_profile)
    IN  n \in {4, 5} =>
            LET k == n - 3
                R == ScoreSum(h, n - 2, n)
                O == ScoreSum(h, 1, k)
            IN  /\ t.trend = "worsening" <=> k * R > 3 * O + 30 * k
                /\ t.trend = "improving" <=> k * R < 3 * O - 30 * k
                /\ t.trend = "stable" <=>
                      (k * R <= 3 * O + 30 * k /\ k * R >= 3 * O - 30 * k)
                /\ (pc["phone1"] = "send" /\ lastEvt.op = "message") =>
                      TheValue(outbox["phone1"]).metadata.trend = t

\* C15 witness: four records of negativity 30: older_avg is 30/1, equal to
\* recent_avg, and the trend is stable (30/3 would make it worsening)
C15_Witness ==
    LET h == user_profile.sentiment_scores
    IN  /\ Len(h) = 4
        /\ \A i \in 1..4 : h[i].negativity_score = 30
        /\ pc["phone1"] = "send" /\ lastEvt.op = "message"
        /\ TheValue(outbox["phone1"]).metadata.trend.trend = "stable"

-----------------------------------------------------------------------------
(* Pattern: one phone sends up to MaxPatternMessages utterances, so that the
   history outgrows the ten records the pattern detector reads.  The first
   MaxVaried are calm, lonely (negativity 15) or grim (negativity 100, no
   loneliness); the later ones are calm or grim. *)

MaxVaried == 4

MaxPatternMessages == 11

PatternTexts ==
    IF received.messages < MaxVaried
    THEN {TextCalm, TextAlone, TextGrim}
    ELSE {TextCalm, TextGrim}

NextPattern ==
    \/ \E content \in PatternTexts :
          /\ received.messages < MaxPatternMessages
          /\ ReceiveMessage("phone1", [type |-> "message", content |-> content], RunOk)
    \/ SendDone("phone1")

SpecPattern == InitOne /\ [][NextPattern]_vars

\* the positions of the last min(n, 10) records of a history of n records
WindowOf(n) == {i \in 1..n : i > n - 10}

\* the three triggers of the pattern detector, counted on the history directly
HighCount(h) == Cardinality({i \in WindowOf(Len(h)) : h[i].negativity_score >= 30})

LonelyCount(h) ==
    Cardinality({i \in WindowOf(Len(h)) : h[i].primary_emotion = Some("loneliness")})

Escalating(h) ==
    LET n == Len(h)
        first == IF n > 10 THEN n - 9 ELSE 1
    IN  /\ Cardinality(WindowOf(n)) >= 5
        /\ h[n].negativity_score + h[n - 1].negativity_score + h[n - 2].negativity_score
              > h[first].negativity_score + h[first + 1].negativity_score
                   + h[first + 2].negativity_score + 60

ReasonsOf(h) ==
    (IF HighCount(h) >= 3
     THEN <<ToString(HighCount(h)) \o " negative conversations detected">> ELSE <<>>)
    \o (IF LonelyCount(h) >= 2
        THEN <<"Loneliness mentioned " \o ToString(LonelyCount(h)) \o " times">> ELSE <<>>)
    \o (IF Escalating(h) THEN <<"Emotional state appears to be worsening">> ELSE <<>>)

\* C11 as claimed: for every history, the short ones included, the result has the
\* recommendation "Consider reaching out for a personal check-in" iff
\* pattern_detected and "Continue monitoring" otherwise, and a reasons list with
\* one entry per true trigger.
C11_PatternOfEveryHistory ==
    LET h == user_profile.sentiment_scores
        p == analyze_pattern(h)
    IN  /\ p.pattern_detected <=>
              (Len(h) >= 3 /\ (HighCount(h) >= 3 \/ LonelyCount(h) >= 2 \/ Escalating(h)))
        /\ "reasons" \in DOMAIN p
        /\ "recommendation" \in DOMAIN p
        /\ p.recommendation =
              IF p.pattern_detected
              THEN "Consider reaching out for a personal check-in"
              ELSE "Continue monitoring"

\* C11 as amended: with fewer than 3 records the result is pattern_detected
\* false with the reason "Insufficient data (need 3+ conversations)" and neither
\* a reasons list nor a recommendation.  With 3 records or more, over the last 10:
\* pattern_detected iff at least 3 records have negativity >= 30, or at least 2
\* have loneliness as primary emotion, or escalating; reasons has one entry per
\* true trigger, in that order; the recommendation is the check-in string iff
\* pattern_detected, else the continue-monitoring string; records before the
\* last 10 do not affect the result.
C11_PatternOfLastTen ==
    LET h == user_profile.sentiment_scores
        n == Len(h)
        p == analyze_pattern(h)
    IN  /\ n < 3 =>
              p = [pattern_detected |-> FALSE,
                   reason |-> "Insufficient data (need 3+ conversations)"]
        /\ n >= 3 =>
              /\ p.pattern_detected <=>
                    (HighCount(h) >= 3 \/ LonelyCount(h) >= 2 \/ Escalating(h))
              /\ p.reasons = ReasonsOf(h)
              /\ p.recommendation =
                    IF p.pattern_detected
                    THEN "Consider reaching out for a personal check-in"
                    ELSE "Continue monitoring"
        /\ n > 10 => p = analyze_pattern(SubSeq(h, n - 9, n))
        /\ (pc["phone1"] = "send" /\ lastEvt.op = "message") =>
              TheValue(outbox["phone1"]).metadata.pattern_alert = p

\* C11 witness: eleven records, the first a grim one that has left the window of
\* ten, in which two grim records remain: no trigger, nothing detected
C11_Witness ==
    LET h == user_profile.sentiment_scores
    IN  /\ Len(h) = 11
        /\ h[1].negativity_score = 100
        /\ HighCount(h) = 2
        /\ pc["phone1"] = "send" /\ lastEvt.op = "message"
        /\ ~TheValue(outbox["phone1"]).metadata.pattern_alert.pattern_detected
        /\ TheValue(outbox["phone1"]).metadata.pattern_alert.reasons = <<>>


\* C17: with 3 records or more, escalating is true iff the window of the last 10
\* holds at least 5 records and the mean negativity of its last 3 exceeds that of
\* its first 3 by more than 20; with 3 or 4 records it is false; and
\* high_negativity_count, loneliness_mentions and severity (high iff at least 5
\* records of negativity >= 30, else moderate) are computed all the same.
C17_EscalatingNeedsFive ==
    LET h == user_profile.sentiment_scores
        n == Len(h)
        p == analyze_pattern(h)
        w == IF n > 10 THEN SubSeq(h, n - 9, n) ELSE h
        m == Len(w)
    IN  n >= 3 =>
            /\ p.escalating <=>
                  (m >= 5 /\ ScoreSum(w, m - 2, m) > ScoreSum(w, 1, 3) + 60)
            /\ n \in {3, 4} => ~p.escalating
            /\ p.high_negativity_count = HighCount(h)
            /\ p.loneliness_mentions = LonelyCount(h)
            /\ p.severity = IF HighCount(h) >= 5 THEN "high" ELSE "moderate"

\* C17 witness: four records, calm first and grim last, whose ends differ by
\* more than 20 in the mean: not escalating, the counts are there
C17_Witness ==
    LET h == user_profile.sentiment_scores
    IN  /\ Len(h) = 4
        /\ h[1].negativity_score = 0
        /\ h[2].primary_emotion = Some("loneliness")
        /\ h[3].primary_emotion = Some("loneliness")
        /\ h[4].negativity_score = 100
        /\ pc["phone1"] = "send" /\ lastEvt.op = "message"
        /\ ~TheValue(outbox["phone1"]).metadata.pattern_alert.escalating
        /\ TheValue(outbox["phone1"]).metadata.pattern_alert.high_negativity_count = 1
        /\ TheValue(outbox["phone1"]).metadata.pattern_alert.loneliness_mentions = 2
        /\ TheValue(outbox["phone1"]).metadata.pattern_alert.severity = "moderate"

\* C21: in every step the sentiment history either stays as it is or gains one
\* record at its end: what was stored stays where it was, unmodified; the length
\* never decreases; and every utterance that is handled makes it one longer,
\* whatever the length already was.  The history of an earlier state is thus a
\* prefix of that of every later state.
C21_HistoryAppendOnly ==
    [][LET h == user_profile.sentiment_scores
           g == user_profile'.sentiment_scores
       IN  /\ Len(g) >= Len(h)
           /\ Len(g) <= Len(h) + 1
           /\ SubSeq(g, 1, Len(h)) = h
           /\ (lastEvt'.op = "message" /\ lastEvt'.run # None /\ received' # received) =>
                 g = Append(h, analyze_sentiment(strip(lastEvt'.data.content)))]_vars

\* C21 witness: eleven utterances were handled and all eleven records are
\* stored, the first, a lonely one, still in the first place
C21_Witness ==
    /\ received.nonempty = 11
    /\ Len(user_profile.sentiment_scores) = 11
    /\ user_profile.sentiment_scores[1] = analyze_sentiment(TextAlone)
    /\ user_profile.sentiment_scores[11] = analyze_sentiment(TextGrim)

-----------------------------------------------------------------------------
(* Analyzer: one phone sends an utterance put together from up to MaxPhrases of
   the phrases of PhrasePool, which between them match one to three lexicon
   entries of each category, in upper and lower case, and then one further
   utterance. *)

MaxPhrases == 3

PhrasePool == <<
    "I am lonely, alone and isolated",
    "forgotten, abandoned",
    "nobody calls",
    "SAD and Depressed",
    "worried",
    "hello there",
    "they forgot, I'm ignored",
    "missing">>

\* the phrases of PhrasePool at the positions in S, in order, joined by blanks
PhraseText(S) ==
    join(" ", SelectSeq(PhrasePool, LAMBDA ph : \E i \in S : PhrasePool[i] = ph))

AnalyzeTexts ==
    {PhraseText(S) : S \in {T \in SUBSET DOMAIN PhrasePool : T # {} /\ Cardinality(T) <= MaxPhrases}}

NextAnalyze ==
    \/ \E content \in (IF received.messages = 0 THEN AnalyzeTexts ELSE RiskTexts) :
          /\ Len(user_profile.sentiment_scores) \in {0, 1}
          /\ ReceiveMessage("phone1", [type |-> "message", content |-> content], RunOk)
    \/ SendDone("phone1")

SpecAnalyze == InitOne /\ [][NextAnalyze]_vars


\* the lexicon entries of category e that occur in the lowercased text
Occurring(text, e) ==
    LET kws == emotion_keywords[EmotionIndex(e)].keywords
        low == lower(text)
    IN  {k \in DOMAIN kws : Contains(low, kws[k])}

MatchCount(text, e) == Cardinality(Occurring(text, e))

ActiveIn(text) == {e \in Emotions : MatchCount(text, e) > 0}

\* the utterance analyzed last and its record, which is the last of the history
LastText == strip(lastEvt.data.content)

LastRecord == user_profile.sentiment_scores[Len(user_profile.sentiment_scores)]

JustAnalyzed == lastEvt.op = "message" /\ lastEvt.run # None

\* C12: negativity_score, the top-level confidence and the confidence of every
\* category of emotion_breakdown lie in 0..100 in every record of the history and
\* in the sentiment sent with a reply, however many phrases matched.
C12_ScoresWithinBounds ==
    LET InBounds(r) ==
            /\ r.negativity_score \in 0..100
            /\ r.confidence \in 0..100
            /\ \A e \in DOMAIN r.emotion_breakdown : r.emotion_breakdown[e] \in 0..100
    IN  /\ \A i \in DOMAIN user_profile.sentiment_scores :
              InBounds(user_profile.sentiment_scores[i])
        /\ (JustAnalyzed /\ pc["phone1"] = "send") =>
              InBounds(TheValue(outbox["phone1"]).metadata.sentiment)

\* C12 witness: five loneliness phrases and seven phrases in all were matched, and
\* both the confidence and the negativity score stopped at 100
C12_Witness ==
    /\ JustAnalyzed
    /\ MatchCount(LastText, "loneliness") = 5
    /\ MatchCount(LastText, "sadness") = 2
    /\ LastRecord.emotion_breakdown["loneliness"] = 100
    /\ LastRecord.confidence = 100
    /\ LastRecord.negativity_score = 100

\* C13: severity is severe iff negativity_score >= 60, moderate iff 30..59, mild
\* iff 1..29, none iff 0, and needs_attention iff severity is moderate or severe,
\* in every record; an utterance in which no phrase occurs, and the empty string,
\* yield primary_emotion None, confidence 0, negativity_score 0, severity none,
\* needs_attention false.
C13_SeverityFromScore ==
    LET Graded(r) ==
            /\ r.severity = "severe" <=> r.negativity_score >= 60
            /\ r.severity = "moderate" <=> (r.negativity_score >= 30 /\ r.negativity_score < 60)
            /\ r.severity = "mild" <=> (r.negativity_score > 0 /\ r.negativity_score < 30)
            /\ r.severity = "none" <=> r.negativity_score = 0
            /\ r.needs_attention <=> r.severity \in {"moderate", "severe"}
        Neutral(r) ==
            /\ r.primary_emotion = None /\ r.confidence = 0 /\ r.negativity_score = 0
            /\ r.severity = "none" /\ ~r.needs_attention
    IN  /\ \A i \in DOMAIN user_profile.sentiment_scores :
              Graded(user_profile.sentiment_scores[i])
        /\ (JustAnalyzed /\ ActiveIn(LastText) = {}) => Neutral(LastRecord)
        /\ JustAnalyzed => Neutral(analyze(""))

\* C13 witness: four phrases matched, negativity exactly 60: severe
C13_Witness ==
    /\ JustAnalyzed
    /\ LastRecord.negativity_score = 60
    /\ LastRecord.severity = "severe"
    /\ LastRecord.needs_attention
    /\ Len(user_profile.sentiment_scores) = 1

\* C14: primary_emotion is None iff no category has a phrase in the text;
\* otherwise it is an active category whose confidence no other exceeds, and of
\* those with that confidence the one declared first (loneliness, sadness,
\* anxiety, social_disconnection).
C14_PrimaryEmotionFirstDeclared ==
    JustAnalyzed =>
        LET conf(e) == IF 25 * MatchCount(LastText, e) > 100 THEN 100
                       ELSE 25 * MatchCount(LastText, e)
            order == <<"loneliness", "sadness", "anxiety", "social_disconnection">>
            pos(e) == CHOOSE i \in 1..4 : order[i] = e
        IN  /\ LastRecord.primary_emotion = None <=> ActiveIn(LastText) = {}
            /\ ActiveIn(LastText) # {} =>
                  LET e == TheValue(LastRecord.primary_emotion)
                  IN  /\ e \in ActiveIn(LastText)
                      /\ LastRecord.confidence = conf(e)
                      /\ \A f \in ActiveIn(LastText) :
                            /\ conf(f) <= conf(e)
                            /\ conf(f) = conf(e) => pos(e) <= pos(f)

\* C14 witness: sadness and social_disconnection tie at 50 above anxiety, and
\* sadness, declared earlier, is chosen
C14_Witness ==
    /\ JustAnalyzed
    /\ MatchCount(LastText, "sadness") = 2
    /\ MatchCount(LastText, "social_disconnection") = 2
    /\ MatchCount(LastText, "anxiety") = 1
    /\ MatchCount(LastText, "loneliness") = 0
    /\ LastRecord.primary_emotion = Some("sadness")

\* C18: the confidence of a category is min(100, 25 x the number of its lexicon
\* phrases occurring in the lowercased text), for exactly the categories with
\* such a phrase, and negativity_score is min(100, 15 x the sum of those numbers
\* over the categories), a stretch of text matched by two categories counting
\* in both.
C18_ScoresFromMatchCounts ==
    JustAnalyzed =>
        LET total == MatchCount(LastText, "loneliness") + MatchCount(LastText, "sadness")
                        + MatchCount(LastText, "anxiety")
                        + MatchCount(LastText, "social_disconnection")
        IN  /\ DOMAIN LastRecord.emotion_breakdown = ActiveIn(LastText)
            /\ \A e \in ActiveIn(LastText) :
                  LastRecord.emotion_breakdown[e] =
                      IF 25 * MatchCount(LastText, e) > 100 THEN 100
                      ELSE 25 * MatchCount(LastText, e)
            /\ LastRecord.negativity_score = IF 15 * total > 100 THEN 100 ELSE 15 * total

\* C18 witness: "nobody calls" counts for loneliness (nobody) and for
\* social_disconnection (nobody calls): two matches, negativity 30
C18_Witness ==
    /\ JustAnalyzed
    /\ LastText = "nobody calls"
    /\ LastRecord.emotion_breakdown =
          [e \in {"loneliness", "social_disconnection"} |-> 25]
    /\ LastRecord.negativity_score = 30


-----------------------------------------------------------------------------
(* Stats: one phone sends up to MaxStatsMessages utterances and up to
   MaxStatsMotion motion updates while the dashboard polls /stats, so that the
   trend, the pattern and the snapshot are computed at every history length
   from 0 up, with and without activity history. *)

MaxStatsMessages == 6

MaxStatsMotion == 1

NextStats ==
    \/ \E content \in {TextCalm, TextSevere} :
          /\ received.messages < MaxStatsMessages
          /\ ReceiveMessage("phone1", [type |-> "message", content |-> content], RunOk)
    \/ /\ Len(appended.activity) < MaxStatsMotion
       /\ ReceiveMotion("phone1", MotionAt(Len(appended.activity)))
    \/ SendDone("phone1")
    \/ GetStats

SpecStats == InitOne /\ [][NextStats]_vars

\* C16: at every history length no trend, pattern or stats computation fails:
\* no message handling and no /stats request ends in an exception; with 4 records
\* or more the windows the trend averages hold 3 and at least 1 record; with 5 or
\* more the two windows of the pattern detector hold 3 each; with fewer than 4
\* (3) records the trend (pattern) is the neutral result; and /stats reports an
\* average negativity of 0 for an empty history and an activity percentage of 0
\* for an empty activity history.
C16_NoEmptyWindowAveraged ==
    LET h == user_profile.sentiment_scores
        n == Len(h)
        t == get_trend_and_risk(user_profile)
        p == analyze_pattern(h)
    IN  /\ "raised" \notin DOMAIN t
        /\ lastEvt.op = "message" => lastEvt.raised = None
        /\ pc["phone1"] # "closed"
        /\ n >= 4 => (Len(PyTail(h, -3)) = 3 /\ Len(older_window(h)) >= 1)
        /\ n >= 5 => (Len(PyTail(pattern_window(h), -3)) = 3
                        /\ Len(PySlice(pattern_window(h), 0, 3)) = 3)
        /\ n < 4 => t = [trend |-> "insufficient_data", risk_level |-> "low",
                         recent_avg_negativity |-> 0]
        /\ n < 3 => p = [pattern_detected |-> FALSE,
                         reason |-> "Insufficient data (need 3+ conversations)"]
        /\ stats # None =>
              /\ "raised" \notin DOMAIN TheValue(stats)
              /\ TheValue(stats).trend = t
              /\ TheValue(stats).average_negativity \in 0..10000
              /\ n = 0 => TheValue(stats).average_negativity = 0
              /\ n < 3 => TheValue(stats).pattern_alert = <<>>
              /\ n >= 3 => TheValue(stats).pattern_alert = p
              /\ sensor_data.motion.activity_history = <<>> =>
                    TheValue(stats).sensors.motion.activity_percentage = 0

\* C16 witness: /stats answered with four records in the history, where the
\* older window of the trend holds a single record, and no activity history
C16_Witness ==
    /\ stats # None
    /\ Len(user_profile.sentiment_scores) = 4
    /\ Len(older_window(user_profile.sentiment_scores)) = 1
    /\ sensor_data.motion.activity_history = <<>>
    /\ TheValue(stats).trend.trend = "improving"
    /\ TheValue(stats).average_negativity = 1500


====
